---- MODULE Spec2Model ----
(***************************************************************************)
(* Model of langkit's implicit environment binding discipline and of the   *)
(* construction pass of the environment expressions                        *)
(* (langkit/expressions/envs.py), of the rendering of bind nodes, and of   *)
(* the lexer specification compiler (langkit/lexer.py): matchers,          *)
(* context-dependent rules, token classes and their catalog, named         *)
(* patterns, rules and the resolution of token names.                      *)
(*                                                                         *)
(* The construction pass is a recursive descent with context managers.  It *)
(* is modelled as a machine with a stack of pending steps (todo), a stack  *)
(* of resolved expressions (results) and the stack of the context managers *)
(* that are currently open (scopes).  A fatal diagnostic is a Python       *)
(* exception: it empties todo and unwinds the open scopes one by one, each *)
(* scope running what its generator runs when the exception is thrown in   *)
(* at its yield.                                                           *)
(***************************************************************************)
EXTENDS Integers, Sequences, FiniteSets, TLC

VARIABLES
    is_bound,   \* Env._is_bound
    name,       \* Env._name, the current binding name
    scopes,     \* open context managers, innermost first
    todo,       \* pending steps of the construction pass, next first
    results,    \* resolved expressions produced so far, last first
    status,     \* "idle" | "running" | "unwinding"
    outcome,    \* "none" | "ok" | "failed": how the last construction ended
    diag,       \* the fatal diagnostic of the last construction
    body,       \* <<expression, has_implicit_env>> of the property constructed
    nvars,      \* number of New_Env variables created (PropertyDef.vars)
    lastExit,   \* the last scope exit: flag and name before entry / after exit
    rendered,   \* result of rendering the constructed root expression
    lastCase,   \* the last Case(...) construction: inputs and result
    counter,    \* TokenAction._counter: the index the next action gets
    classes,    \* the token classes declared: attribute -> action index
    lexers,     \* the Lexer objects constructed
    lastCall    \* the last call on a lexer: arguments and outcome

\* The state of the property compiler and the state of the lexer compiler.
propvars == <<is_bound, name, scopes, todo, results, status, outcome, diag,
              body, nvars, lastExit, rendered>>
lexvars == <<counter, classes, lexers, lastCall>>

vars == <<is_bound, name, scopes, todo, results, status, outcome, diag, body,
          nvars, lastExit, rendered, lastCase, counter, classes, lexers,
          lastCall>>

(***************************************************************************)
(* Bounds                                                                  *)
(***************************************************************************)
\* Nesting depth of the abstract expressions that are constructed.
MaxDepth == 2
\* Length of the text of a literal or pattern matcher.
MaxTextLen == 2
\* Number of alternatives of a Case rule.
MaxAlts == 2

\* Number of token classes declared.
MaxClasses == 2
\* Number of lexers constructed.
MaxLexers == 2
\* Number of entries handed to add_rules of a lexer, all calls together.
MaxRules == 2
\* Number of named patterns added to one lexer.
MaxPatterns == 2

(***************************************************************************)
(* Names and types                                                         *)
(***************************************************************************)
default_name == <<"Current_Env", 0>>

NewEnvName(k) == <<"New_Env", k>>

LexicalEnvType == "LexicalEnv"
Symbol == "Symbol"
Token == "Token"
BoolType == "Bool"
RootNodeType == "ASTNode"
EnvElType == "EnvEl"
EnvElArrayType == "EnvElArray"
AnyType == "Any"

(***************************************************************************)
(* Abstract expressions                                                    *)
(***************************************************************************)
Env == <<"Env">>
EmptyEnv == <<"EmptyEnv">>

\* Keys handed to env_get: a Python str, expressions of type Symbol, Token
\* and Bool, and a value that is neither an expression nor a str.
StrKey == <<"Str">>
SymExpr == <<"SymExpr">>
TokExpr == <<"TokExpr">>
BoolExpr == <<"BoolExpr">>
IntVal == <<"IntVal">>
Keys == {StrKey, SymExpr, TokExpr, BoolExpr, IntVal}

eval_in_env(e, x) == <<"eval_in_env", e, x>>
env_get(e, k, resolve_unique, sequential) ==
    <<"env_get", e, k, resolve_unique, sequential>>
\* A reference to a property whose expression is constructed on demand.
property(b, has_implicit_env) == <<"property", b, has_implicit_env>>

Leaf == {Env, EmptyEnv}
EnvOperands == Leaf \cup {eval_in_env(a, b) : a \in Leaf, b \in Leaf}
Gets == {env_get(e, k, ru, sq) : e \in Leaf, k \in Keys,
                                 ru \in BOOLEAN, sq \in BOOLEAN}

RECURSIVE Trees(_)
Trees(d) ==
    IF d = 0 THEN Leaf
    ELSE LET T == Trees(d - 1) IN
         T \cup Gets
           \cup {eval_in_env(a, b) : a \in EnvOperands, b \in T}
           \cup {property(b, h) : b \in T, h \in BOOLEAN}

Bodies == Trees(MaxDepth)

(***************************************************************************)
(* Resolved expressions: <<class, static type, ...>>                       *)
(***************************************************************************)
TypeOf(r) == r[2]

\* AbstractVariable.construct: the variable itself; it is rendered as the
\* binding name that is current when it is rendered.
VarExpr(type, var) == <<"Var", type, var>>
LiteralExpr(type) == <<"Lit", type>>
TypedExpr(type) == <<"Expr", type>>
GetSymbol(sub) == <<"GetSymbol", Symbol, sub>>
BasicExpr(template, type, operands) == <<"BasicExpr", type, template, operands>>
EnvBindExpr(env_var, env_expr, to_eval_expr) ==
    <<"EnvBindExpr", TypeOf(to_eval_expr), env_var, env_expr, to_eval_expr>>
PropertyCall(type) == <<"PropertyCall", type>>

(***************************************************************************)
(* Diagnostics (check_source_language with a false condition)              *)
(***************************************************************************)
NoDiag == <<"none", "">>
NoImplicitEnvDiag == <<"no implicit environment parameter", "">>
InvalidKeyDiag(k) == <<"Invalid key argument for Env.get", k[1]>>
WrongSymbolTypeDiag(type) == <<"Wrong type for symbol expr", type>>
TypeMismatchDiag(type) == <<"Expected type", type>>

(***************************************************************************)
(* EnvVariable: the binding state and its scopes                           *)
(***************************************************************************)
Frame(kind, h, saved, old, pre_b, pre_n) ==
    [kind |-> kind, has_implicit_env |-> h, saved_is_bound |-> saved,
     old_name |-> old, pre_bound |-> pre_b, pre_name |-> pre_n]

NoExit == [kind |-> "none", how |-> "none", has_implicit_env |-> FALSE,
           pre_bound |-> FALSE, pre_name |-> default_name,
           post_bound |-> FALSE, post_name |-> default_name, outer |-> "none"]

\* What is recorded when scope f is left: how, the flag and the name before
\* it was entered and after it is left, and the kind of the enclosing scope.
ExitRecord(f, how, b, n, enclosing) ==
    [kind |-> f.kind, how |-> how, has_implicit_env |-> f.has_implicit_env,
     pre_bound |-> f.pre_bound, pre_name |-> f.pre_name,
     post_bound |-> b, post_name |-> n,
     outer |-> IF enclosing = <<>> THEN "none" ELSE Head(enclosing).kind]

\* PropertyDef.get(): the property whose expression is being constructed is
\* the one of the innermost bind_default scope.
RECURSIVE CurrentPropHasImplicitEnv(_)
CurrentPropHasImplicitEnv(sc) ==
    IF sc = <<>> THEN FALSE
    ELSE IF Head(sc).kind = "bind_default" THEN Head(sc).has_implicit_env
    ELSE CurrentPropHasImplicitEnv(Tail(sc))

has_ambient_env == CurrentPropHasImplicitEnv(scopes) \/ is_bound

\* bind(): the flag while the scope is open, on leaving the with block
\* normally, and when an exception is thrown in at the yield.
BindEnterFlag(flag) == TRUE
\* (the flag cleared instead of restored)
BindExitFlagCleared(f, flag) == FALSE
BindExitFlag(f, flag) == f.saved_is_bound
BindRaisedFlag(f, flag) == flag

\* bind_default(prop)
\* (the flag of the enclosing scope kept)
BindDefaultEnterFlagKept(h, flag) == flag
BindDefaultEnterFlag(h, flag) == IF h THEN flag ELSE FALSE
BindDefaultEnterName(h, n) == IF h THEN default_name ELSE n
BindDefaultExitFlag(f, flag) ==
    IF f.has_implicit_env THEN flag ELSE f.saved_is_bound
BindDefaultRaisedFlag(f, flag) == flag

\* bind_name(name), entered by bind_default for a property with an implicit
\* environment parameter: the previous name is back on every exit path.
BindNameExit(f, n) == IF f.has_implicit_env THEN f.old_name ELSE n

ExitFlag(f, flag) ==
    IF f.kind = "bind" THEN BindExitFlag(f, flag)
    ELSE BindDefaultExitFlag(f, flag)

RaisedFlag(f, flag) ==
    IF f.kind = "bind" THEN BindRaisedFlag(f, flag)
    ELSE BindDefaultRaisedFlag(f, flag)

ExitName(f, n) == IF f.kind = "bind" THEN n ELSE BindNameExit(f, n)

(***************************************************************************)
(* The construction pass                                                   *)
(***************************************************************************)
ConstructTask(e, type) == <<"construct", e, type>>
CheckTypeTask(type) == <<"check_type", type>>

\* construct(expr, expected_type): the type is checked once expr is resolved.
TypeCheckTasks(type) ==
    IF type = AnyType THEN <<>> ELSE <<CheckTypeTask(type)>>

\* (every lookup typed as an array)
GetResultTypeAlwaysArray(resolve_unique) == EnvElArrayType
\* (a token key left as it is)
InternKeyNone(sym_expr) == sym_expr

\* (the binding acquired before the environment operand is resolved)
EvalInEnvTasksBindFirst(env_expr, to_eval_expr) ==
    << <<"bind">>,
       ConstructTask(env_expr, LexicalEnvType),
       ConstructTask(to_eval_expr, AnyType),
       <<"EnvBindExpr">>,
       <<"end_bind">> >>

\* eval_in_env: the environment operand is resolved first; the binding is
\* held while the dependent expression is resolved and the node created.
EvalInEnvTasks(env_expr, to_eval_expr) ==
    << ConstructTask(env_expr, LexicalEnvType),
       <<"bind">>,
       ConstructTask(to_eval_expr, AnyType),
       <<"EnvBindExpr">>,
       <<"end_bind">> >>

\* env_get, the key: lines 116-128.
IsExprOrStr(k) == k # IntVal

ConstructKey(k) ==
    IF k = StrKey THEN LiteralExpr(Symbol)
    ELSE IF k = SymExpr THEN TypedExpr(Symbol)
    ELSE IF k = TokExpr THEN TypedExpr(Token)
    ELSE TypedExpr(BoolType)

InternKey(sym_expr) ==
    IF TypeOf(sym_expr) = Token THEN GetSymbol(sym_expr) ELSE sym_expr

KeyAccepted(sym_expr) == TypeOf(sym_expr) = Symbol

\* env_get, the operands after the key and the environment: lines 132-142.
GetExtraOperands(sequential) ==
    IF sequential
    THEN <<VarExpr(RootNodeType, "Self"), LiteralExpr(BoolType)>>
    ELSE <<LiteralExpr(BoolType)>>

GetTemplate(resolve_unique, sequential) ==
    <<IF resolve_unique THEN "Get (_, 0)" ELSE "Create (_)",
      IF sequential THEN "AST_Envs.Get (Self, Key, From, Recursive)"
      ELSE "AST_Envs.Get (Self, Key, Recursive)">>

\* env_get, the type of the node: lines 147-153.
GetResultType(resolve_unique) ==
    IF resolve_unique THEN EnvElType ELSE EnvElArrayType

MakeEnvGet(env_r, sym_r, resolve_unique, sequential) ==
    BasicExpr(GetTemplate(resolve_unique, sequential),
              GetResultType(resolve_unique),
              <<env_r, sym_r>> \o GetExtraOperands(sequential))

EnterFrame(kind, h) == Frame(kind, h, is_bound, name, is_bound, name)

Running == status = "running" /\ todo # <<>>

UnchangedCtl == UNCHANGED <<outcome, body, rendered, lastCase, lexvars>>

\* check_source_language(False, ...): the exception leaves the pass.
Fatal(d) ==
    /\ status' = "unwinding"
    /\ diag' = d
    /\ todo' = <<>>
    /\ results' = <<>>
    /\ UNCHANGED <<is_bound, name, scopes, nvars, lastExit>>
    /\ UnchangedCtl

Continue(new_todo, new_results) ==
    /\ todo' = new_todo
    /\ results' = new_results
    /\ UNCHANGED <<status, diag>>
    /\ UnchangedCtl

\* A property's expression is constructed under bind_default(prop).
StartProperty(b, h) ==
    /\ status = "idle"
    /\ outcome = "none"
    /\ scopes' = <<EnterFrame("bind_default", h)>>
    /\ is_bound' = BindDefaultEnterFlag(h, is_bound)
    /\ name' = BindDefaultEnterName(h, name)
    /\ todo' = <<ConstructTask(b, AnyType), <<"end_bind_default">>>>
    /\ results' = <<>>
    /\ status' = "running"
    /\ outcome' = "none"
    /\ diag' = NoDiag
    /\ body' = <<b, h>>
    /\ nvars' = 0
    /\ lastExit' = NoExit
    /\ rendered' = <<>>
    /\ UNCHANGED <<lastCase, lexvars>>

\* EnvVariable.construct
ConstructEnv ==
    /\ Running
    /\ Head(todo)[1] = "construct" /\ Head(todo)[2] = Env
    /\ IF has_ambient_env
       THEN /\ Continue(TypeCheckTasks(Head(todo)[3]) \o Tail(todo),
                        <<VarExpr(LexicalEnvType, "Env")>> \o results)
            /\ UNCHANGED <<is_bound, name, scopes, nvars, lastExit>>
       ELSE Fatal(NoImplicitEnvDiag)

\* AbstractVariable.construct of EmptyEnv
ConstructEmptyEnv ==
    /\ Running
    /\ Head(todo)[1] = "construct" /\ Head(todo)[2] = EmptyEnv
    /\ Continue(TypeCheckTasks(Head(todo)[3]) \o Tail(todo),
                <<VarExpr(LexicalEnvType, "EmptyEnv")>> \o results)
    /\ UNCHANGED <<is_bound, name, scopes, nvars, lastExit>>

CheckType ==
    /\ Running
    /\ Head(todo)[1] = "check_type"
    /\ IF TypeOf(Head(results)) = Head(todo)[2]
       THEN /\ Continue(Tail(todo), results)
            /\ UNCHANGED <<is_bound, name, scopes, nvars, lastExit>>
       ELSE Fatal(TypeMismatchDiag(TypeOf(Head(results))))

ConstructEvalInEnv ==
    /\ Running
    /\ Head(todo)[1] = "construct" /\ Head(todo)[2][1] = "eval_in_env"
    /\ Continue(EvalInEnvTasks(Head(todo)[2][2], Head(todo)[2][3])
                  \o TypeCheckTasks(Head(todo)[3]) \o Tail(todo), results)
    /\ UNCHANGED <<is_bound, name, scopes, nvars, lastExit>>

\* with Env.bind():
Bind ==
    /\ Running
    /\ Head(todo)[1] = "bind"
    /\ scopes' = <<EnterFrame("bind", FALSE)>> \o scopes
    /\ is_bound' = BindEnterFlag(is_bound)
    /\ Continue(Tail(todo), results)
    /\ UNCHANGED <<name, nvars, lastExit>>

\* EnvBindExpr(env_resolved_expr, construct(to_eval_expr))
MakeEnvBindExpr ==
    /\ Running
    /\ Head(todo)[1] = "EnvBindExpr"
    /\ nvars' = nvars + 1
    /\ Continue(Tail(todo),
                <<EnvBindExpr(NewEnvName(nvars + 1), results[2], results[1])>>
                  \o Tail(Tail(results)))
    /\ UNCHANGED <<is_bound, name, scopes, lastExit>>

\* Leaving a with block normally: the generator resumes after its yield.
EndScope(kind) ==
    /\ Running
    /\ Head(todo)[1] = kind
    /\ LET f == Head(scopes) IN
       /\ is_bound' = ExitFlag(f, is_bound)
       /\ name' = ExitName(f, name)
       /\ lastExit' = ExitRecord(f, "normal", ExitFlag(f, is_bound),
                                 ExitName(f, name), Tail(scopes))
    /\ scopes' = Tail(scopes)
    /\ Continue(Tail(todo), results)
    /\ UNCHANGED nvars

EndBind == EndScope("end_bind")

EndBindDefault == EndScope("end_bind_default")

\* env_get up to the check of the key's type.
ConstructEnvGet ==
    /\ Running
    /\ Head(todo)[1] = "construct" /\ Head(todo)[2][1] = "env_get"
    /\ LET e == Head(todo)[2]
           sym_expr == InternKey(ConstructKey(e[3]))
       IN IF ~IsExprOrStr(e[3]) THEN Fatal(InvalidKeyDiag(e[3]))
          ELSE IF ~KeyAccepted(sym_expr)
          THEN Fatal(WrongSymbolTypeDiag(TypeOf(sym_expr)))
          ELSE /\ Continue(<<ConstructTask(e[2], LexicalEnvType),
                             <<"make_env_get", sym_expr, e[4], e[5]>>>>
                             \o TypeCheckTasks(Head(todo)[3]) \o Tail(todo),
                           results)
               /\ UNCHANGED <<is_bound, name, scopes, nvars, lastExit>>

MakeEnvGetExpr ==
    /\ Running
    /\ Head(todo)[1] = "make_env_get"
    /\ Continue(Tail(todo),
                <<MakeEnvGet(Head(results), Head(todo)[2], Head(todo)[3],
                             Head(todo)[4])>> \o Tail(results))
    /\ UNCHANGED <<is_bound, name, scopes, nvars, lastExit>>

\* A property referenced before its type is known is constructed in place,
\* under its own bind_default scope.
ConstructProperty ==
    /\ Running
    /\ Head(todo)[1] = "construct" /\ Head(todo)[2][1] = "property"
    /\ LET e == Head(todo)[2] IN
       /\ scopes' = <<EnterFrame("bind_default", e[3])>> \o scopes
       /\ is_bound' = BindDefaultEnterFlag(e[3], is_bound)
       /\ name' = BindDefaultEnterName(e[3], name)
       /\ Continue(<<ConstructTask(e[2], AnyType), <<"end_bind_default">>,
                     <<"PropertyCall">>>>
                     \o TypeCheckTasks(Head(todo)[3]) \o Tail(todo), results)
    /\ UNCHANGED <<nvars, lastExit>>

MakePropertyCall ==
    /\ Running
    /\ Head(todo)[1] = "PropertyCall"
    /\ Continue(Tail(todo),
                <<PropertyCall(TypeOf(Head(results)))>> \o Tail(results))
    /\ UNCHANGED <<is_bound, name, scopes, nvars, lastExit>>

\* The exception reaches the with statement of the innermost open scope and
\* is thrown into its generator.
Unwind ==
    /\ status = "unwinding"
    /\ scopes # <<>>
    /\ LET f == Head(scopes) IN
       /\ is_bound' = RaisedFlag(f, is_bound)
       /\ name' = ExitName(f, name)
       /\ lastExit' = ExitRecord(f, "raised", RaisedFlag(f, is_bound),
                                 ExitName(f, name), Tail(scopes))
    /\ scopes' = Tail(scopes)
    /\ UNCHANGED <<todo, results, status, diag, nvars>>
    /\ UnchangedCtl

\* The driver reports the diagnostic; the next property can be constructed.
Report ==
    /\ status = "unwinding"
    /\ scopes = <<>>
    /\ status' = "idle"
    /\ outcome' = "failed"
    /\ UNCHANGED <<is_bound, name, scopes, todo, results, diag, body, nvars,
                   lastExit, rendered, lastCase, lexvars>>

Finish ==
    /\ status = "running"
    /\ todo = <<>>
    /\ status' = "idle"
    /\ outcome' = "ok"
    /\ UNCHANGED <<is_bound, name, scopes, todo, results, diag, body, nvars,
                   lastExit, rendered, lastCase, lexvars>>

\* The compilation of the property's expression is over: what it produced
\* is dropped; the binding state stays as the pass left it.
NextProperty ==
    /\ status = "idle"
    /\ outcome # "none"
    /\ outcome' = "none"
    /\ results' = <<>>
    /\ rendered' = <<>>
    /\ diag' = NoDiag
    /\ body' = <<EmptyEnv, FALSE>>
    /\ lastExit' = NoExit
    /\ nvars' = 0
    /\ UNCHANGED <<is_bound, name, scopes, todo, status, lastCase, lexvars>>

(***************************************************************************)
(* Rendering of resolved expressions.  Every operator takes the binding    *)
(* name that is current when the node is rendered and returns what is      *)
(* rendered and the binding name that is current afterwards.               *)
(***************************************************************************)
Rendered(out, n) == [out |-> out, name |-> n]

\* Effects of the preparatory part.
Assign(var, value) == <<"assign", var, value>>
IncRef(var) == <<"Inc_Ref", var>>
DecRef(var) == <<"Dec_Ref", var>>

\* Result expressions.
Ref(n) == <<"ref", n>>
ResultVarName == <<"Env_Get_Result", 0>>

\* bind_name(name): the name inside the scope, and the name after it.
BindNameEnter(new_name) == new_name
BindNameLeave(old_name, n) == old_name

VarName(var, n) ==
    IF var = "Env" THEN n
    ELSE IF var = "EmptyEnv" THEN <<"AST_Envs.Empty_Env", 0>>
    ELSE <<var, 0>>

RECURSIVE RenderPre(_, _), RenderExpr(_, _), RenderPreAll(_, _),
          RenderExprAll(_, _), EnvBindRenderPre(_, _), EnvBindRenderExpr(_, _),
          EnvBindRenderPreEarlyBind(_, _), EnvBindRenderPreNoRetain(_, _),
          EnvBindRenderPreBodyFirst(_, _)

\* The preparatory effects of the operands, in order.
RenderPreAll(ops, n) ==
    IF ops = <<>> THEN Rendered(<<>>, n)
    ELSE LET first == RenderPre(Head(ops), n)
             rest == RenderPreAll(Tail(ops), first.name)
         IN Rendered(first.out \o rest.out, rest.name)

RenderExprAll(ops, n) ==
    IF ops = <<>> THEN Rendered(<<>>, n)
    ELSE LET first == RenderExpr(Head(ops), n)
             rest == RenderExprAll(Tail(ops), first.name)
         IN Rendered(<<first.out>> \o rest.out, rest.name)

\* The environment operand rendered inside the binding scope.
EnvBindRenderPreEarlyBind(r, n) ==
    LET env_var == r[3]
        inner == BindNameEnter(env_var)
        env_pre == RenderPre(r[4], inner)
        env_expr == RenderExpr(r[4], env_pre.name)
        to_eval == RenderPre(r[5], env_expr.name)
    IN Rendered(env_pre.out
                  \o <<Assign(env_var, env_expr.out), IncRef(env_var)>>
                  \o to_eval.out,
                BindNameLeave(n, to_eval.name))

\* (the new environment stored but not retained)
EnvBindRenderPreNoRetain(r, n) ==
    LET env_var == r[3]
        env_pre == RenderPre(r[4], n)
        env_expr == RenderExpr(r[4], env_pre.name)
        to_eval == RenderPre(r[5], BindNameEnter(env_var))
    IN Rendered(env_pre.out \o <<Assign(env_var, env_expr.out)>>
                  \o to_eval.out,
                BindNameLeave(env_expr.name, to_eval.name))

\* (the dependent expression prepared before the new environment)
EnvBindRenderPreBodyFirst(r, n) ==
    LET env_var == r[3]
        env_pre == RenderPre(r[4], n)
        env_expr == RenderExpr(r[4], env_pre.name)
        to_eval == RenderPre(r[5], BindNameEnter(env_var))
    IN Rendered(to_eval.out \o env_pre.out
                  \o <<Assign(env_var, env_expr.out), IncRef(env_var)>>,
                BindNameLeave(env_expr.name, to_eval.name))

\* EnvBindExpr._render_pre
EnvBindRenderPre(r, n) ==
    LET env_var == r[3]
        env_pre == RenderPre(r[4], n)
        env_expr == RenderExpr(r[4], env_pre.name)
        to_eval == RenderPre(r[5], BindNameEnter(env_var))
    IN Rendered(env_pre.out
                  \o <<Assign(env_var, env_expr.out), IncRef(env_var)>>
                  \o to_eval.out,
                BindNameLeave(env_expr.name, to_eval.name))

\* EnvBindExpr._render_expr
EnvBindRenderExpr(r, n) ==
    LET to_eval == RenderExpr(r[5], BindNameEnter(r[3]))
    IN Rendered(to_eval.out, BindNameLeave(n, to_eval.name))

RenderPre(r, n) ==
    IF r[1] = "EnvBindExpr" THEN EnvBindRenderPre(r, n)
    ELSE IF r[1] = "GetSymbol" THEN RenderPre(r[3], n)
    ELSE IF r[1] = "BasicExpr"
    THEN LET pre == RenderPreAll(r[4], n)
             args == RenderExprAll(r[4], pre.name)
         IN Rendered(pre.out \o <<Assign(ResultVarName, <<r[3], args.out>>)>>,
                     args.name)
    ELSE Rendered(<<>>, n)

RenderExpr(r, n) ==
    IF r[1] = "EnvBindExpr" THEN EnvBindRenderExpr(r, n)
    ELSE IF r[1] = "Var" THEN Rendered(Ref(VarName(r[3], n)), n)
    ELSE IF r[1] = "Named" THEN Rendered(Ref(r[3]), n)
    ELSE IF r[1] = "GetSymbol"
    THEN LET sub == RenderExpr(r[3], n)
         IN Rendered(<<"Get_Symbol", sub.out>>, sub.name)
    ELSE IF r[1] = "BasicExpr" THEN Rendered(Ref(ResultVarName), n)
    ELSE Rendered(<<r[1], r[2]>>, n)

\* The property's code is emitted: the preparatory effects of the root
\* expression, then its result expression.
Render ==
    /\ status = "idle"
    /\ outcome = "ok"
    /\ rendered = <<>>
    /\ LET pre == RenderPre(Head(results), name)
           expr == RenderExpr(Head(results), pre.name)
       IN /\ rendered' = <<[pre |-> pre.out, expr |-> expr.out,
                            name_before |-> name]>>
          /\ name' = expr.name
    /\ UNCHANGED <<is_bound, scopes, todo, results, status, outcome, diag,
                   body, nvars, lastExit, lastCase, lexvars>>

(***************************************************************************)
(* Lexer: matchers and context-dependent (Case) rules                      *)
(***************************************************************************)
\* Characters of matcher texts: an alphanumeric, the two characters that
\* Pattern.max_match_length lets through, and a regular expression operator.
Alphabet == {"a", ".", "'", "+"}

Texts == UNION {[1..n -> Alphabet] : n \in 0..MaxTextLen}

Literal(to_match) == <<"Literal", to_match>>
Pattern(pattern) == <<"Pattern", pattern>>
NoCase(to_match) == <<"NoCase", to_match>>
Eof == <<"Eof", <<>>>>
Failure == <<"Failure", <<>>>>

Matchers == {Literal(t) : t \in Texts} \cup {Pattern(t) : t \in Texts}
              \cup {NoCase(t) : t \in Texts} \cup {Eof, Failure}

\* What a call returns or raises.
Returns(v) == <<"returns", v>>
Raises(exc) == <<"raises", exc>>

\* re.escape(c) != c
IsEscaped(c) == c # "a"

\* (every pattern taken for a fixed-width one)
PatternMaxMatchLengthAny(pattern) == Returns(Len(pattern))

\* Pattern.max_match_length
PatternMaxMatchLength(pattern) ==
    IF \E i \in 1..Len(pattern) :
           IsEscaped(pattern[i]) /\ pattern[i] \notin {".", "'"}
    THEN Raises("ValueError")
    ELSE Returns(Len(pattern))

\* max_match_length of Literal, NoCase, Eof and of the base class Matcher
MaxMatchLength(m) ==
    IF m[1] = "Literal" THEN Returns(Len(m[2]))
    ELSE IF m[1] = "Pattern" THEN PatternMaxMatchLength(m[2])
    ELSE IF m[1] = "NoCase" THEN PatternMaxMatchLength(m[2])
    ELSE IF m[1] = "Eof" THEN Returns(0)
    ELSE Raises("NotImplementedError")

\* Alt(prev_token_cond, send, match_size).  None is the empty tuple; a
\* match size n is <<n>>; guarded says whether prev_token_cond is given.
None == <<>>
Alt(guarded, match_size) ==
    [is_alt |-> TRUE, guarded |-> guarded, match_size |-> match_size]
NotAnAlt == [is_alt |-> FALSE, guarded |-> FALSE, match_size |-> None]

MatchSizes == {None} \cup {<<n>> : n \in (-1)..(MaxTextLen + 1)}

Alts == {Alt(g, sz) : g \in BOOLEAN, sz \in MatchSizes} \cup {NotAnAlt}

AltLists == UNION {[1..n -> Alts] : n \in 0..MaxAlts}

\* (the comparison the wrong way round)
MatchSizeGe(match_size, max_match_len) ==
    match_size = None \/ match_size[1] >= max_match_len

\* alt.match_size <= max_match_len, as Python 2 orders None before numbers.
MatchSizeLe(match_size, max_match_len) ==
    match_size = None \/ match_size[1] <= max_match_len

\* The first alternative, in order, that fails an assertion of the loop.
RECURSIVE FirstBadAlt(_, _)
FirstBadAlt(alts, max_match_len) ==
    IF alts = <<>> THEN "none"
    ELSE IF ~Head(alts).is_alt THEN "Invalid alternative to Case matcher"
    ELSE IF ~MatchSizeLe(Head(alts).match_size, max_match_len)
    THEN "Match size for this Case alternative cannot be longer"
    ELSE FirstBadAlt(Tail(alts), max_match_len)

\* Case.CaseAction.__init__
CaseActionInit(max_match_len, alts) ==
    IF FirstBadAlt(alts, max_match_len) # "none"
    THEN Raises(<<"AssertionError", FirstBadAlt(alts, max_match_len)>>)
    ELSE IF alts = <<>> THEN Raises(<<"IndexError", "">>)
    ELSE IF alts[Len(alts)].guarded
    THEN Raises(<<"AssertionError",
                  "The last alternative must have no prev token condition">>)
    ELSE Returns([max_match_len |-> max_match_len,
                  alts |-> SubSeq(alts, 1, Len(alts) - 1),
                  last_alt |-> alts[Len(alts)]])

\* Case.__init__
CaseInit(matcher, alts) ==
    LET len == MaxMatchLength(matcher) IN
    IF len[1] = "raises" THEN Raises(<<len[2], "">>)
    ELSE LET action == CaseActionInit(len[2], alts) IN
         IF action[1] = "raises" THEN action
         ELSE Returns([matcher |-> matcher, action |-> action[2]])

NoCaseYet == <<>>

\* Case(matcher, *alts) is evaluated.
NewCase(matcher, alts) ==
    /\ lastCase = NoCaseYet
    /\ lastCase' = <<[matcher |-> matcher, alts |-> alts,
                      result |-> CaseInit(matcher, alts)]>>
    /\ UNCHANGED <<propvars, lexvars>>

\* The rule, or the error, is dropped.
DropCase ==
    /\ lastCase # NoCaseYet
    /\ lastCase' = NoCaseYet
    /\ UNCHANGED <<propvars, lexvars>>

(***************************************************************************)
(* Lexer: token classes, the token catalog, named patterns and rules       *)
(***************************************************************************)
\* Name.from_camel and Name.from_lower for one-word names: a Name is
\* identified by its lower-case form.  Lower is str.lower on the strings
\* that occur.
LowerTable ==
    [Termination |-> "termination", LexingFailure |-> "lexingfailure",
     Indent |-> "indent", Dedent |-> "dedent", Newline |-> "newline",
     Plus |-> "plus", Id |-> "id", PLUS |-> "plus"]
Lower(s) == IF s \in DOMAIN LowerTable THEN LowerTable[s] ELSE s
Name(lower) == <<"Name", lower>>
from_camel(fld_name) == Name(Lower(fld_name))
from_lower(lower) == Name(lower)

\* A token action (WithText, WithSymbol): its _index, and the name that
\* add_tokens gives it, the name of the attribute that declares it.
TokenAction(index, fld_name) ==
    [kind |-> "TokenAction", index |-> index, name |-> from_camel(fld_name)]
Ignore == [kind |-> "Ignore"]
CaseAction(action) == [kind |-> "CaseAction", action |-> action]

\* The token attributes of the class LexerToken itself.
LexerTokenDict == [Termination |-> 0, LexingFailure |-> 1]

\* The token attributes that class bodies declare, in order.
TokenDecls == {<<"Plus">>, <<"Plus", "Id">>}

Position(names, n) == CHOOSE i \in 1..Len(names) : names[i] = n

\* class T(LexerToken): each attribute of the body instantiates an action.
ClassDict(names, first_index) ==
    [n \in {names[i] : i \in 1..Len(names)} |->
         first_index + Position(names, n) - 1]

\* LexerToken.__init__ with track_indent: three actions are instantiated
\* and set as attributes of the class.
LayoutTokens == <<"Indent", "Dedent", "Newline">>
TrackIndentDict(dict, first_index) ==
    [a \in DOMAIN dict \cup {LayoutTokens[i] : i \in 1..Len(LayoutTokens)} |->
         IF \E i \in 1..Len(LayoutTokens) : LayoutTokens[i] = a
         THEN first_index + Position(LayoutTokens, a) - 1
         ELSE dict[a]]

\* LexerToken.add_tokens
add_tokens(dict) == {TokenAction(dict[a], a) : a \in DOMAIN dict}

\* getattr(tokens, attr): the attribute of the class, then of LexerToken.
TokensGetAttr(dict, attr) ==
    IF attr \in DOMAIN dict THEN Returns(TokenAction(dict[attr], attr))
    ELSE IF attr \in DOMAIN LexerTokenDict
    THEN Returns(TokenAction(LexerTokenDict[attr], attr))
    ELSE Raises("AttributeError")

\* What is handed to add_rules: tuples, rule associations, other values.
Tuple(elems) == [kind |-> "tuple", elems |-> elems]
RuleAssoc(matcher, action) ==
    [kind |-> "RuleAssoc", matcher |-> matcher, action |-> action]
List(elems) == [kind |-> "list", elems |-> elems]

\* (a new rule put in front of the rules)
PrependRule(rules, rule_assoc) == <<rule_assoc>> \o rules

\* self.rules.append(rule_assoc)
AppendRule(rules, rule_assoc) == Append(rules, rule_assoc)

\* (the first rule of a literal keeps its place in the index)
LiteralsMapPutFirst(literals_map, rule_assoc) ==
    IF rule_assoc.matcher[1] = "Literal"
          /\ rule_assoc.matcher[2] \notin DOMAIN literals_map
    THEN [t \in DOMAIN literals_map \cup {rule_assoc.matcher[2]} |->
              IF t = rule_assoc.matcher[2] THEN rule_assoc.action
              ELSE literals_map[t]]
    ELSE literals_map

\* self.literals_map[m.to_match] = a, for a literal matcher
LiteralsMapPut(literals_map, rule_assoc) ==
    IF rule_assoc.matcher[1] = "Literal"
    THEN [t \in DOMAIN literals_map \cup {rule_assoc.matcher[2]} |->
              IF t = rule_assoc.matcher[2] THEN rule_assoc.action
              ELSE literals_map[t]]
    ELSE literals_map

\* Lexer.add_rules: the loop over the entries.  An assertion that fails
\* leaves what the earlier entries have added.
RECURSIVE add_rules(_, _, _)
add_rules(rules, literals_map, entries) ==
    IF entries = <<>>
    THEN [rules |-> rules, literals_map |-> literals_map,
          result |-> Returns(None)]
    ELSE IF \/ (Head(entries).kind = "tuple"
                  /\ Len(Head(entries).elems) # Len(<<"matcher", "action">>))
            \/ Head(entries).kind \notin {"tuple", "RuleAssoc"}
    THEN [rules |-> rules, literals_map |-> literals_map,
          result |-> Raises("AssertionError")]
    ELSE LET rule_assoc ==
                 IF Head(entries).kind = "tuple"
                 THEN RuleAssoc(Head(entries).elems[1],
                                Head(entries).elems[2])
                 ELSE Head(entries)
         IN add_rules(AppendRule(rules, rule_assoc),
                      LiteralsMapPut(literals_map, rule_assoc),
                      Tail(entries))

\* Lexer.PredefPattern
PredefPattern(k, v) == <<"PredefPattern", k, v>>

\* Lexer.add_patterns: the list of patterns and the attributes of
\* self.patterns.
RECURSIVE add_patterns(_, _, _)
add_patterns(list, attrs, pairs) ==
    IF pairs = <<>> THEN [list |-> list, attrs |-> attrs]
    ELSE LET k == Head(pairs)[1]
             predef_pattern == PredefPattern(k, Head(pairs)[2])
         IN add_patterns(
                Append(list, predef_pattern),
                [a \in DOMAIN attrs \cup {Lower(k)} |->
                     IF a = Lower(k) THEN predef_pattern ELSE attrs[a]],
                Tail(pairs))

\* The rules that Lexer.__init__ adds.
NewlineLiteral == Literal("\\n")
AutomaticRules(dict) ==
    <<Tuple(<<Eof, TokensGetAttr(dict, "Termination")[2]>>),
      Tuple(<<Failure, TokensGetAttr(dict, "LexingFailure")[2]>>)>>
IndentRules(dict) ==
    <<Tuple(<<NewlineLiteral, TokensGetAttr(dict, "Newline")[2]>>)>>

\* Lexer.__init__, given the attributes of the token class once
\* LexerToken.__init__ has run.
LexerInit(cls, dict, track_indent) ==
    LET fields == add_tokens(dict) \cup add_tokens(LexerTokenDict)
        automatic == add_rules(<<>>, <<>>, AutomaticRules(dict))
        added == IF track_indent
                 THEN add_rules(automatic.rules, automatic.literals_map,
                                IndentRules(dict))
                 ELSE automatic
    IN [cls |-> cls,
        track_indent |-> track_indent,
        fields |-> fields,
        tokens_set |-> {el.name : el \in fields},
        patterns |-> <<>>,
        pattern_attrs |-> <<>>,
        rules |-> added.rules,
        literals_map |-> added.literals_map,
        calls |-> <<>>,
        declared |-> <<>>]

\* Values handed to token_base_name, with their Python type.
Value(type, v) == <<type, v>>
TypeOfValue(value) == value[1]

\* check_source_language(False, message)
Reported(message) == <<"reported", message>>

\* Lexer.token_base_name
token_base_name(lexer, token) ==
    IF TypeOfValue(token) = "TokenAction" THEN Returns(token[2].name)
    ELSE IF TypeOfValue(token) = "Name"
    THEN IF token[2] \in lexer.tokens_set THEN Returns(token[2])
         ELSE Raises("AssertionError")
    ELSE IF TypeOfValue(token) # "str" THEN Raises("AttributeError")
    ELSE IF from_lower(Lower(token[2])) \in lexer.tokens_set
    THEN Returns(from_lower(Lower(token[2])))
    ELSE IF token[2] \in DOMAIN lexer.literals_map
    THEN IF lexer.literals_map[token[2]].kind = "TokenAction"
         THEN Returns(lexer.literals_map[token[2]].name)
         ELSE Raises("AttributeError")
    ELSE Reported(<<"token literal is not part of the valid tokens",
                    token[2]>>)

\* sorted(self.tokens, key=lambda t: t.value)
RECURSIVE SortedByValue(_)
SortedByValue(tokens) ==
    IF tokens = {} THEN <<>>
    ELSE LET first == CHOOSE t \in tokens :
                          \A u \in tokens : t.index <= u.index
         IN <<first>> \o SortedByValue(tokens \ {first})

\* Lexer.sorted_tokens
sorted_tokens(lexer) == SortedByValue(lexer.fields)

\* What Lexer.emit hands to the renderer.
emit(lexer) ==
    [template |-> "lexer/quex_lexer_spec", tokens |-> lexer.fields,
     patterns |-> lexer.patterns, rules |-> lexer.rules]

\* The rule entries a user hands to add_rules of a lexer: tuples of a
\* matcher and a token of the lexer's class, a Case rule on a literal, a
\* tuple of three elements, a list.
UserRulePairs ==
    {<<Literal("+"), "Plus">>, <<Literal("+"), "Id">>,
     <<Literal("plus"), "Plus">>, <<Literal("plus"), "Id">>,
     <<Pattern("[0-9]+"), "Plus">>}
CaseOnPlus ==
    RuleAssoc(Literal("+"),
              CaseAction(CaseActionInit(1, <<Alt(FALSE, <<1>>)>>)[2]))
Entries(dict) ==
    {Tuple(<<p[1], TokenAction(dict[p[2]], p[2])>>) :
         p \in {q \in UserRulePairs : q[2] \in DOMAIN dict}}
      \cup {CaseOnPlus,
            Tuple(<<Literal("+"), Ignore, Ignore>>),
            List(<<Literal("+"), Ignore>>)}

SeqsUpTo(S, n) == UNION {[1..k -> S] : k \in 0..n}

\* The named patterns a user declares.
PatternPairs == {<<"digit", "[0-9]">>, <<"Integer", "{digit}+">>}

\* The values a user hands to token_base_name.
TokenValues(lexer) ==
    {Value("TokenAction", t) : t \in lexer.fields}
      \cup {Value("Name", Name(n)) : n \in {"plus", "minus"}}
      \cup {Value("str", t) : t \in {"plus", "PLUS", "+", "minus"}}
      \cup {Value("int", 42)}

NoCall == <<>>
Call(op, l, arg, result, before) ==
    <<[op |-> op, lexer |-> l, arg |-> arg, result |-> result,
       before |-> before]>>

\* The number of entries handed to add_rules of a lexer so far.
RECURSIVE EntriesPassed(_)
EntriesPassed(calls) ==
    IF calls = <<>> THEN 0
    ELSE Len(Head(calls).entries) + EntriesPassed(Tail(calls))

\* class T(LexerToken): ...
DeclareTokenClass(names) ==
    /\ Len(classes) < MaxClasses
    /\ classes' = Append(classes, ClassDict(names, counter))
    /\ counter' = counter + Len(names)
    /\ UNCHANGED <<lexers, lastCall, lastCase, propvars>>

\* Lexer(tokens_class, track_indent)
NewLexer(c, track_indent) ==
    /\ Len(lexers) < MaxLexers
    /\ LET dict == IF track_indent
                   THEN TrackIndentDict(classes[c], counter)
                   ELSE classes[c]
       IN /\ classes' = [classes EXCEPT ![c] = dict]
          /\ counter' = counter + (IF track_indent
                                     THEN Len(LayoutTokens) ELSE 0)
          /\ lexers' = Append(lexers, LexerInit(c, dict, track_indent))
    /\ UNCHANGED <<lastCall, lastCase, propvars>>

\* lexer.add_patterns(*pairs)
AddPatterns(l, pairs) ==
    /\ pairs # <<>>
    /\ Len(lexers[l].patterns) + Len(pairs) <= MaxPatterns
    /\ LET added == add_patterns(lexers[l].patterns,
                                 lexers[l].pattern_attrs, pairs)
       IN lexers' = [lexers EXCEPT
                        ![l].patterns = added.list,
                        ![l].pattern_attrs = added.attrs,
                        ![l].declared = lexers[l].declared \o pairs]
    /\ UNCHANGED <<counter, classes, lastCall, lastCase, propvars>>

\* lexer.add_rules(*entries)
AddRules(l, entries) ==
    /\ entries # <<>>
    /\ EntriesPassed(lexers[l].calls) + Len(entries) <= MaxRules
    /\ LET added == add_rules(lexers[l].rules, lexers[l].literals_map,
                              entries)
       IN /\ lexers' = [lexers EXCEPT
                           ![l].rules = added.rules,
                           ![l].literals_map = added.literals_map,
                           ![l].calls = Append(lexers[l].calls,
                                               [entries |-> entries,
                                                result |-> added.result])]
          /\ lastCall' = Call("add_rules", l, entries, added.result,
                              lexers[l])
    /\ UNCHANGED <<counter, classes, lastCase, propvars>>

\* lexer.emit()
Emit(l) ==
    /\ lastCall' = Call("emit", l, <<>>, Returns(emit(lexers[l])),
                        lexers[l])
    /\ UNCHANGED <<counter, classes, lexers, lastCase, propvars>>

\* lexer.token_base_name(token)
TokenBaseName(l, token) ==
    /\ lastCall' = Call("token_base_name", l, token,
                        token_base_name(lexers[l], token), lexers[l])
    /\ UNCHANGED <<counter, classes, lexers, lastCase, propvars>>

\* lexer.sorted_tokens
SortedTokens(l) ==
    /\ lastCall' = Call("sorted_tokens", l, <<>>,
                        Returns(sorted_tokens(lexers[l])), lexers[l])
    /\ UNCHANGED <<counter, classes, lexers, lastCase, propvars>>

\* Lexer.__getattr__: getattr(self.tokens, attr)
GetAttr(l, attr) ==
    /\ lastCall' = Call("getattr", l, attr,
                        TokensGetAttr(classes[lexers[l].cls], attr),
                        lexers[l])
    /\ UNCHANGED <<counter, classes, lexers, lastCase, propvars>>

\* The result, or the error, of the last call is dropped.
ForgetCall ==
    /\ lastCall # NoCall
    /\ lastCall' = NoCall
    /\ UNCHANGED <<counter, classes, lexers, lastCase, propvars>>

(***************************************************************************)
(* Specifications                                                          *)
(***************************************************************************)
Init ==
    /\ is_bound = FALSE
    /\ name = default_name
    /\ scopes = <<>>
    /\ todo = <<>>
    /\ results = <<>>
    /\ status = "idle"
    /\ outcome = "none"
    /\ diag = NoDiag
    /\ body = <<EmptyEnv, FALSE>>
    /\ nvars = 0
    /\ lastExit = NoExit
    /\ rendered = <<>>
    /\ lastCase = NoCaseYet
    /\ counter = Cardinality(DOMAIN LexerTokenDict)
    /\ classes = <<>>
    /\ lexers = <<>>
    /\ lastCall = NoCall

Next ==
    \/ /\ status = "idle"
       /\ \E b \in Bodies, h \in BOOLEAN : StartProperty(b, h)
    \/ ConstructEnv
    \/ ConstructEmptyEnv
    \/ CheckType
    \/ ConstructEvalInEnv
    \/ Bind
    \/ MakeEnvBindExpr
    \/ EndBind
    \/ EndBindDefault
    \/ ConstructEnvGet
    \/ MakeEnvGetExpr
    \/ ConstructProperty
    \/ MakePropertyCall
    \/ Unwind
    \/ Report
    \/ Finish
    \/ Render
    \/ NextProperty

\* The construction pass and the rendering of what it constructs.
Spec == Init /\ [][Next]_vars

NextCase ==
    \/ /\ lastCase = NoCaseYet
       /\ \E m \in Matchers, alts \in AltLists : NewCase(m, alts)
    \/ DropCase

\* The construction of Case rules.
SpecCase == Init /\ [][NextCase]_vars

NextCatalog ==
    \/ /\ lastCall = NoCall
       /\ \E names \in TokenDecls : DeclareTokenClass(names)
    \/ /\ lastCall = NoCall
       /\ \E c \in 1..Len(classes), t \in BOOLEAN : NewLexer(c, t)
    \/ /\ lastCall = NoCall
       /\ \E l \in 1..Len(lexers) : SortedTokens(l)
    \/ /\ lastCall = NoCall
       /\ \E l \in 1..Len(lexers) :
              \E attr \in {"Termination", "Newline", "Indent", "Dedent"} :
                  GetAttr(l, attr)
    \/ ForgetCall

\* The declaration of token classes, the construction of lexers from them
\* and the lookup of their tokens.
SpecCatalog == Init /\ [][NextCatalog]_vars

NextLexer ==
    \/ /\ lastCall = NoCall
       /\ classes = <<>>
       /\ \E names \in TokenDecls : DeclareTokenClass(names)
    \/ /\ lastCall = NoCall
       /\ lexers = <<>>
       /\ \E c \in 1..Len(classes), t \in BOOLEAN : NewLexer(c, t)
    \/ /\ lastCall = NoCall
       /\ \E l \in 1..Len(lexers) :
              \E pairs \in SeqsUpTo(PatternPairs, MaxPatterns) :
                  AddPatterns(l, pairs)
    \/ /\ lastCall = NoCall
       /\ \E l \in 1..Len(lexers) :
              \E entries \in
                     SeqsUpTo(Entries(classes[lexers[l].cls]),
                              MaxRules - EntriesPassed(lexers[l].calls)) :
                  AddRules(l, entries)
    \/ /\ lastCall = NoCall
       /\ \E l \in 1..Len(lexers) : Emit(l)
    \/ /\ lastCall = NoCall
       /\ \E l \in 1..Len(lexers) :
              \E token \in TokenValues(lexers[l]) : TokenBaseName(l, token)
    \/ ForgetCall

\* One lexer and the calls on it: named patterns, rules, emission and the
\* resolution of token names.
SpecLexer == Init /\ [][NextLexer]_vars

(***************************************************************************)
(* Properties                                                              *)
(***************************************************************************)
Finished == status = "idle" /\ outcome # "none"

\* C1: when a bind_default scope has been left, normally or by a fatal
\* diagnostic, the explicit-bound flag and the current binding name are what
\* they were before the scope was entered.
C1_BindDefaultRestores ==
    lastExit.kind = "bind_default" =>
        /\ lastExit.post_bound = lastExit.pre_bound
        /\ lastExit.post_name = lastExit.pre_name

\* C2: when a bind() scope has been left because the construction of the
\* dependent expression failed, the explicit-bound flag is what it was
\* before the scope was entered.
C2_BindRestoresOnFailure ==
    lastExit.kind = "bind" /\ lastExit.how = "raised" =>
        lastExit.post_bound = lastExit.pre_bound

\* The reference is legal by the structure of the open scopes: the property
\* under construction has an implicit environment parameter, or a bind()
\* scope was opened after its bind_default scope.
ReferenceIsLegal ==
    \/ CurrentPropHasImplicitEnv(scopes)
    \/ (scopes # <<>> /\ Head(scopes).kind = "bind")

AtEnvReference ==
    Running /\ Head(todo)[1] = "construct" /\ Head(todo)[2] = Env

\* C3: a reference to the ambient environment is resolved if and only if it
\* is legal; otherwise the construction fails with the 'no implicit
\* environment parameter' diagnostic and nothing is resolved.
C3_EnvReferenceLegality ==
    [][AtEnvReference =>
          IF ReferenceIsLegal
          THEN /\ status' = "running"
               /\ Head(results') = VarExpr(LexicalEnvType, "Env")
          ELSE /\ status' = "unwinding"
               /\ diag' = NoImplicitEnvDiag
               /\ results' = <<>>]_vars

\* A reference fails in a property without implicit parameter although a
\* bind() scope was open when its bind_default scope was entered.
C3_Witness ==
    /\ status = "unwinding" /\ diag = NoImplicitEnvDiag
    /\ Len(scopes) >= 2
    /\ scopes[1].kind = "bind_default" /\ ~scopes[1].has_implicit_env
    /\ scopes[1].pre_bound
    /\ scopes[2].kind = "bind"

\* C4: while the dependent expression of the innermost eval_in_env is
\* constructed the environment is bound, and when an eval_in_env returns
\* normally the flag and the name are what they were before it was called:
\* bound when it lies inside another eval_in_env.
C4_EvalInEnvComposes ==
    /\ (status = "running" /\ scopes # <<>> /\ Head(scopes).kind = "bind"
            => is_bound)
    /\ (lastExit.kind = "bind" /\ lastExit.how = "normal" =>
            /\ lastExit.post_bound = lastExit.pre_bound
            /\ lastExit.post_name = lastExit.pre_name
            /\ (lastExit.outer = "bind" => lastExit.post_bound))

\* An eval_in_env nested in the dependent expression of another has returned.
C4_Witness ==
    /\ lastExit.kind = "bind" /\ lastExit.how = "normal"
    /\ lastExit.outer = "bind" /\ lastExit.pre_bound
    /\ status = "running"

\* C5: in a property without implicit environment parameter,
\* eval_in_env(Env, X) fails on its operand, eval_in_env(E, Env) is
\* constructed, and so is eval_in_env(E1, eval_in_env(Env, X)).
C5_OperandOutsideBinding ==
    Finished /\ ~body[2] =>
        /\ (body[1][1] = "eval_in_env" /\ body[1][2] = Env =>
                outcome = "failed" /\ diag = NoImplicitEnvDiag)
        /\ (body[1] = eval_in_env(EmptyEnv, Env) => outcome = "ok")
        /\ \A x \in Leaf :
               body[1] = eval_in_env(EmptyEnv, eval_in_env(Env, x)) =>
                   outcome = "ok"

C5_Witness ==
    /\ Finished /\ outcome = "ok"
    /\ body = <<eval_in_env(EmptyEnv, eval_in_env(Env, Env)), FALSE>>

\* The resolved expression with every reference to the ambient environment
\* replaced by the variable it denotes lexically: New_Env of the innermost
\* bind node whose dependent expression holds it, n outside all of them.
RECURSIVE Shadow(_, _), ShadowAll(_, _)
ShadowAll(ops, n) ==
    IF ops = <<>> THEN <<>>
    ELSE <<Shadow(Head(ops), n)>> \o ShadowAll(Tail(ops), n)

Shadow(r, n) ==
    IF r[1] = "Var" /\ r[3] = "Env" THEN <<"Named", r[2], n>>
    ELSE IF r[1] = "EnvBindExpr"
    THEN <<r[1], r[2], r[3], Shadow(r[4], n), Shadow(r[5], r[3])>>
    ELSE IF r[1] = "GetSymbol" THEN <<r[1], r[2], Shadow(r[3], n)>>
    ELSE IF r[1] = "BasicExpr" THEN <<r[1], r[2], r[3], ShadowAll(r[4], n)>>
    ELSE r

NoName == <<"", 0>>

\* C6: what is rendered, preparatory part and result part, is what is
\* rendered of the expression in which each reference to the ambient
\* environment inside a bind node's dependent expression is that node's
\* New_Env variable and each one in its environment operand is the name
\* current outside the node; after rendering, the current binding name is
\* the one that was current before.
C6_ShadowingLaw ==
    rendered # <<>> =>
        LET r == Head(results)
            n == rendered[1].name_before
        IN /\ rendered[1].pre = RenderPre(Shadow(r, n), NoName).out
           /\ rendered[1].expr = RenderExpr(Shadow(r, n), NoName).out
           /\ name = n

\* Nested bind nodes whose operands and dependent expression all reference
\* the ambient environment have been rendered.
C6_Witness ==
    /\ rendered # <<>>
    /\ body = <<eval_in_env(Env, eval_in_env(Env, Env)), TRUE>>
    /\ rendered[1].expr = Ref(NewEnvName(1))
    /\ Assign(NewEnvName(1), Ref(NewEnvName(2))) \in
           {rendered[1].pre[i] : i \in 1..Len(rendered[1].pre)}
    /\ Assign(NewEnvName(2), Ref(default_name)) \in
           {rendered[1].pre[i] : i \in 1..Len(rendered[1].pre)}

\* The New_Env variables of the bind nodes of a resolved expression.
RECURSIVE BindVars(_), BindVarsAll(_)
BindVarsAll(ops) ==
    IF ops = <<>> THEN {} ELSE BindVars(Head(ops)) \cup BindVarsAll(Tail(ops))

BindVars(r) ==
    IF r[1] = "EnvBindExpr" THEN {r[3]} \cup BindVars(r[4]) \cup BindVars(r[5])
    ELSE IF r[1] = "GetSymbol" THEN BindVars(r[3])
    ELSE IF r[1] = "BasicExpr" THEN BindVarsAll(r[4])
    ELSE {}

Count(effects, e) == Cardinality({i \in 1..Len(effects) : effects[i] = e})

\* C7 as claimed: in the effects rendered by a bind node, the retain of its
\* New_Env variable is matched by exactly one release.
C7_ReleasedExactlyOnce ==
    rendered # <<>> =>
        \A v \in BindVars(Head(results)) :
            /\ Count(rendered[1].pre, IncRef(v)) = 1
            /\ Count(rendered[1].pre, DecRef(v)) = 1

\* C7 as amended: in the effects rendered by a bind node, its New_Env
\* variable is retained exactly once, right after the one assignment of the
\* operand's value to it, and the bind node renders no release of it.
C7_RetainedOnceNeverReleased ==
    rendered # <<>> =>
        \A v \in BindVars(Head(results)) :
            /\ Count(rendered[1].pre, IncRef(v)) = 1
            /\ Count(rendered[1].pre, DecRef(v)) = 0
            /\ \E i \in 1..(Len(rendered[1].pre) - 1) :
                   /\ rendered[1].pre[i][1] = "assign"
                   /\ rendered[1].pre[i][2] = v
                   /\ rendered[1].pre[i + 1] = IncRef(v)

\* Two nested bind nodes have been rendered.
C7_Witness ==
    /\ rendered # <<>>
    /\ Cardinality(BindVars(Head(results))) = 2
    /\ Count(rendered[1].pre, IncRef(NewEnvName(1))) = 1
    /\ Count(rendered[1].pre, IncRef(NewEnvName(2))) = 1

ValidEnvOperand == body[1][2] = EmptyEnv \/ (body[1][2] = Env /\ body[2])

\* C8: a lookup with a valid environment operand and a text, symbol or
\* token key is constructed; its type is the lookup-result type, taken from
\* element 0 of the result array, when resolve_unique is true, and the array
\* of lookup results otherwise, whatever sequential is.
C8_LookupResultType ==
    Finished /\ body[1][1] = "env_get" /\ ValidEnvOperand
             /\ body[1][3] \in {StrKey, SymExpr, TokExpr} =>
        /\ outcome = "ok"
        /\ Head(results)[1] = "BasicExpr"
        /\ IF body[1][4]
           THEN /\ TypeOf(Head(results)) = EnvElType
                /\ Head(results)[3][1] = "Get (_, 0)"
           ELSE /\ TypeOf(Head(results)) = EnvElArrayType
                /\ Head(results)[3][1] = "Create (_)"

\* A sequential lookup of a unique result on the ambient environment.
C8_Witness ==
    /\ Finished /\ outcome = "ok"
    /\ body = <<env_get(Env, StrKey, TRUE, TRUE), TRUE>>
    /\ TypeOf(Head(results)) = EnvElType

\* C9: a token key is interned (GetSymbol) and accepted, a symbol key is
\* accepted as it is; a key of another type, or a key that is neither an
\* expression nor a text, fails the construction with a diagnostic naming
\* the type or the value, and nothing is resolved.
C9_LookupKeyTyping ==
    Finished /\ body[1][1] = "env_get" =>
        /\ (body[1][3] = TokExpr /\ ValidEnvOperand =>
                /\ outcome = "ok"
                /\ Head(results)[4][2] = GetSymbol(TypedExpr(Token)))
        /\ (body[1][3] = SymExpr /\ ValidEnvOperand =>
                /\ outcome = "ok"
                /\ Head(results)[4][2] = TypedExpr(Symbol))
        /\ (body[1][3] = BoolExpr =>
                /\ outcome = "failed"
                /\ diag = WrongSymbolTypeDiag(BoolType)
                /\ results = <<>>)
        /\ (body[1][3] = IntVal =>
                /\ outcome = "failed"
                /\ diag = InvalidKeyDiag(IntVal)
                /\ results = <<>>)

\* A lookup with a token key has been constructed.
C9_Witness ==
    /\ Finished /\ outcome = "ok"
    /\ body[1][1] = "env_get" /\ body[1][3] = TokExpr
    /\ Head(results)[4][2][1] = "GetSymbol"

\* The alternatives break one of the two conditions on a Case rule: the
\* last one is guarded, or one rewinds further than the matcher can match.
BreaksCaseConditions(c) ==
    \/ (c.alts # <<>> /\ c.alts[Len(c.alts)].guarded)
    \/ \E i \in 1..Len(c.alts) :
           /\ c.alts[i].match_size # None
           /\ MaxMatchLength(c.matcher)[1] = "returns"
           /\ c.alts[i].match_size[1] > Len(c.matcher[2])

\* C10: a Case rule that is constructed has an unguarded last alternative
\* and no alternative whose rewind length exceeds the length the matcher can
\* match; a construction that breaks either condition raises an error and
\* yields no rule.
C10_CaseRuleConditions ==
    lastCase # NoCaseYet =>
        LET c == lastCase[1] IN
        /\ (c.result[1] = "returns" =>
                /\ c.result[2].matcher = c.matcher
                /\ c.result[2].action.max_match_len = Len(c.matcher[2])
                /\ c.result[2].action.alts \o <<c.result[2].action.last_alt>>
                       = c.alts
                /\ ~c.result[2].action.last_alt.guarded
                /\ \A i \in 1..Len(c.alts) :
                       c.alts[i].match_size # None =>
                           c.alts[i].match_size[1] <= Len(c.matcher[2]))
        /\ (BreaksCaseConditions(c) => c.result[1] = "raises")

\* A rule with a guarded alternative that rewinds and an unguarded last one
\* that takes the whole match has been constructed.
C10_Witness ==
    /\ lastCase # NoCaseYet
    /\ lastCase[1].matcher = Pattern(<<"'", ".">>)
    /\ lastCase[1].alts = <<Alt(TRUE, <<1>>), Alt(FALSE, <<2>>)>>
    /\ lastCase[1].result[1] = "returns"

\* The characters that match exactly one input character: alphanumerics, the
\* dot and the tick.
FixedWidth(c) == c \in {"a", ".", "'"}

\* The number of input characters a matcher can consume, where it can be
\* computed.
Known(n) == <<"known", n>>
Unknown == <<"unknown">>
Extent(m) ==
    IF m[1] = "Literal" THEN Known(Len(m[2]))
    ELSE IF m = Eof THEN Known(0)
    ELSE IF m[1] \in {"Pattern", "NoCase"}
              /\ \A i \in 1..Len(m[2]) : FixedWidth(m[2][i])
    THEN Known(Len(m[2]))
    ELSE Unknown

\* The errors by which max_match_length reports that the extent is unknown.
UnknownExtentErrors == {"ValueError", "NotImplementedError"}

C17_AltsCarryRewindLength ==
    (lastCase # NoCaseYet /\ lastCase[1].result[1] = "returns") =>
        LET a == lastCase[1].result[2].action IN
        \A i \in 1..Len(lastCase[1].alts) :
            /\ lastCase[1].alts[i].match_size # None
            /\ 0 <= lastCase[1].alts[i].match_size[1]
            /\ lastCase[1].alts[i].match_size[1] <= a.max_match_len

\* The bind nodes of a resolved expression, and the number of its nodes
\* that store their result in a variable of their own.
RECURSIVE BindNodes(_), BindNodesAll(_), ResultStores(_), ResultStoresAll(_)
BindNodesAll(ops) ==
    IF ops = <<>> THEN {}
    ELSE BindNodes(Head(ops)) \cup BindNodesAll(Tail(ops))

BindNodes(r) ==
    IF r[1] = "EnvBindExpr" THEN {r} \cup BindNodes(r[4]) \cup BindNodes(r[5])
    ELSE IF r[1] = "GetSymbol" THEN BindNodes(r[3])
    ELSE IF r[1] = "BasicExpr" THEN BindNodesAll(r[4])
    ELSE {}

ResultStoresAll(ops) ==
    IF ops = <<>> THEN 0
    ELSE ResultStores(Head(ops)) + ResultStoresAll(Tail(ops))

ResultStores(r) ==
    IF r[1] = "EnvBindExpr" THEN ResultStores(r[4]) + ResultStores(r[5])
    ELSE IF r[1] = "GetSymbol" THEN ResultStores(r[3])
    ELSE IF r[1] = "BasicExpr" THEN 1 + ResultStoresAll(r[4])
    ELSE 0

\* C16: for every bind node of a rendered expression, at any nesting, the
\* preparatory effects hold the assignment of its New_Env variable directly
\* followed by the retain of that variable; every effect of its environment
\* operand comes before the assignment and every effect of its dependent
\* expression comes after the retain.
C16_RetainedBeforeDependentEffects ==
    rendered # <<>> =>
        LET pre == rendered[1].pre IN
        \A b \in BindNodes(Head(results)) :
            \E i \in 1..(Len(pre) - 1) :
                /\ pre[i][1] = "assign"
                /\ pre[i][2] = b[3]
                /\ pre[i + 1] = IncRef(b[3])
                /\ \A j \in 1..Len(pre) :
                       /\ (pre[j][2] \in BindVars(b[4]) => j < i)
                       /\ (pre[j][2] \in BindVars(b[5]) => j > i + 1)
                /\ Cardinality({j \in 1..(i - 1) : pre[j][2] = ResultVarName})
                       >= ResultStores(b[4])
                /\ Cardinality({j \in (i + 2)..Len(pre) :
                                    pre[j][2] = ResultVarName})
                       >= ResultStores(b[5])

\* A bind node whose environment operand is itself a bind node and whose
\* dependent expression is a lookup has been rendered: the operand's two
\* effects, the node's assignment and retain, then the lookup's effect.
C16_Witness ==
    /\ rendered # <<>>
    /\ body[1] = eval_in_env(eval_in_env(EmptyEnv, EmptyEnv),
                             env_get(Env, StrKey, TRUE, FALSE))
    /\ Len(rendered[1].pre) = 5
    /\ rendered[1].pre[2][1] = "Inc_Ref"
    /\ rendered[1].pre[4] = IncRef(Head(results)[3])
    /\ rendered[1].pre[5][2] = ResultVarName

\* C11: the token kinds that sorted_tokens lists have the values 0, 1, 2,
\* ... of their declaration order in the lexer's catalog, the first being
\* Termination with value 0.
C11_KindIsDeclarationOrder ==
    (lastCall # NoCall /\ lastCall[1].op = "sorted_tokens") =>
        LET tokens == lastCall[1].result[2] IN
        /\ tokens[1] = TokenAction(0, "Termination")
        /\ {tokens[i] : i \in 1..Len(tokens)}
               = lexers[lastCall[1].lexer].fields
        /\ \A i \in 1..Len(tokens) : tokens[i].index = i - 1

\* What does hold of sorted_tokens: it lists the whole catalog by strictly
\* increasing value, Termination with value 0 first.
SortedTokensIncrease ==
    (lastCall # NoCall /\ lastCall[1].op = "sorted_tokens") =>
        LET tokens == lastCall[1].result[2] IN
        /\ tokens[1] = TokenAction(0, "Termination")
        /\ {tokens[i] : i \in 1..Len(tokens)}
               = lexers[lastCall[1].lexer].fields
        /\ \A i \in 1..(Len(tokens) - 1) :
               tokens[i].index < tokens[i + 1].index

\* C19: the actions of a lexer's automatic rules are in its own catalog;
\* Termination looked up on a lexer, and Newline, Indent and Dedent looked
\* up on a lexer that tracks indentation, are the actions of that name in
\* its catalog, Newline being the action of its newline rule.
C19_LookupYieldsOwnToken ==
    /\ \A l \in 1..Len(lexers) :
           \A i \in 1..Len(lexers[l].rules) :
               lexers[l].rules[i].action \in lexers[l].fields
    /\ (lastCall # NoCall /\ lastCall[1].op = "getattr"
           /\ (lexers[lastCall[1].lexer].track_indent
                  \/ lastCall[1].arg = "Termination")) =>
           LET lexer == lexers[lastCall[1].lexer] IN
           /\ lastCall[1].result[1] = "returns"
           /\ lastCall[1].result[2] \in lexer.fields
           /\ (lastCall[1].arg = "Newline" =>
                   \E i \in 1..Len(lexer.rules) :
                       /\ lexer.rules[i].matcher = NewlineLiteral
                       /\ lexer.rules[i].action = lastCall[1].result[2])

\* An entry that add_rules accepts: a tuple of two elements or a rule
\* association; the rule it stands for.
WellFormed(entry) ==
    \/ (entry.kind = "tuple" /\ Len(entry.elems) = 2)
    \/ entry.kind = "RuleAssoc"
AsRule(entry) ==
    IF entry.kind = "tuple" THEN RuleAssoc(entry.elems[1], entry.elems[2])
    ELSE entry

\* The rules that the calls of add_rules hand in, in the order of the calls
\* and of the arguments of each call; of a call with a malformed entry, the
\* ones that precede that entry.
RECURSIVE RulesBeforeMalformed(_), RulesHandedIn(_)
RulesBeforeMalformed(entries) ==
    IF entries = <<>> \/ ~WellFormed(Head(entries)) THEN <<>>
    ELSE <<AsRule(Head(entries))>> \o RulesBeforeMalformed(Tail(entries))
RulesHandedIn(calls) ==
    IF calls = <<>> THEN <<>>
    ELSE RulesBeforeMalformed(Head(calls).entries)
             \o RulesHandedIn(Tail(calls))

TokenNamed(lexer, lower) == CHOOSE t \in lexer.fields : t.name = Name(lower)

\* C12: the rule list handed to the renderer is the end-of-input rule with
\* Termination, the failure rule with LexingFailure, the newline rule with
\* Newline if and only if indentation is tracked, then the user's rules in
\* the order of the add_rules calls and of their arguments; the pattern
\* list holds the named patterns in the order they were declared.
C12_EmittedRulesAndPatterns ==
    (lastCall # NoCall /\ lastCall[1].op = "emit") =>
        LET lexer == lexers[lastCall[1].lexer]
            out == lastCall[1].result[2]
        IN
        /\ out.rules =
               <<RuleAssoc(Eof, TokenAction(0, "Termination")),
                 RuleAssoc(Failure, TokenAction(1, "LexingFailure"))>>
               \o (IF lexer.track_indent
                   THEN <<RuleAssoc(NewlineLiteral,
                                    TokenNamed(lexer, "newline"))>>
                   ELSE <<>>)
               \o RulesHandedIn(lexer.calls)
        /\ out.patterns =
               [i \in 1..Len(lexer.declared) |->
                    PredefPattern(lexer.declared[i][1], lexer.declared[i][2])]
        /\ out.tokens = lexer.fields

\* A lexer with the patterns digit and Integer, declared in two calls, and
\* two rules has been emitted: the pattern rule is the third rule.
C12_Witness ==
    /\ lastCall # NoCall
    /\ lastCall[1].op = "emit"
    /\ ~lexers[lastCall[1].lexer].track_indent
    /\ Len(lexers[lastCall[1].lexer].calls) = 2
    /\ lastCall[1].result[2].patterns =
           <<PredefPattern("digit", "[0-9]"),
             PredefPattern("Integer", "{digit}+")>>
    /\ Len(lastCall[1].result[2].rules) = 4
    /\ lastCall[1].result[2].rules[3].matcher = Pattern("[0-9]+")
    /\ lastCall[1].result[2].rules[4].matcher = Literal("+")

\* C13: token_base_name returns the name of a token action, a declared
\* Name, the Name that a string equals but for case, the name of the token
\* of the literal rule with the string as text; for any other value it
\* reports a fatal diagnostic.
C13_TokenBaseNameUniform ==
    (lastCall # NoCall /\ lastCall[1].op = "token_base_name") =>
        LET lexer == lexers[lastCall[1].lexer]
            type == TypeOfValue(lastCall[1].arg)
            token == lastCall[1].arg[2]
            result == lastCall[1].result
            literal_rules ==
                {i \in 1..Len(lexer.rules) :
                     /\ lexer.rules[i].matcher = Literal(token)
                     /\ lexer.rules[i].action.kind = "TokenAction"}
        IN
        IF type = "TokenAction" THEN result = Returns(token.name)
        ELSE IF type = "Name" /\ token \in lexer.tokens_set
        THEN result = Returns(token)
        ELSE IF type = "str" /\ Name(Lower(token)) \in lexer.tokens_set
        THEN result = Returns(Name(Lower(token)))
        ELSE IF type = "str" /\ literal_rules # {}
        THEN \E i \in literal_rules :
                 result = Returns(lexer.rules[i].action.name)
        ELSE result[1] = "reported"

\* C14: a call of add_rules with a malformed entry reports a fatal
\* diagnostic and leaves the rule list and the literal index as they were
\* before the call.
C14_RejectedCallAddsNothing ==
    (lastCall # NoCall /\ lastCall[1].op = "add_rules"
        /\ \E i \in 1..Len(lastCall[1].arg) : ~WellFormed(lastCall[1].arg[i]))
    => /\ lastCall[1].result[1] = "reported"
       /\ lexers[lastCall[1].lexer].rules = lastCall[1].before.rules
       /\ lexers[lastCall[1].lexer].literals_map
              = lastCall[1].before.literals_map

\* The rules of a lexer whose matcher is the literal of a text.
RulesOfLiteral(lexer, text) ==
    {i \in 1..Len(lexer.rules) : lexer.rules[i].matcher = Literal(text)}

\* C18: the literal index of a lexer holds exactly the texts of the literal
\* matchers of its rules, each with the action of the last rule of that
\* literal; a call that adds no rule of a literal leaves the index as it
\* was; and a string that equals a declared token name but for case is
\* resolved to that name, whatever the index holds for the string.
C18_LiteralIndexLastWriterWins ==
    /\ \A l \in 1..Len(lexers) :
           LET lexer == lexers[l] IN
           /\ DOMAIN lexer.literals_map =
                  {lexer.rules[i].matcher[2] :
                       i \in {j \in 1..Len(lexer.rules) :
                                  lexer.rules[j].matcher[1] = "Literal"}}
           /\ \A t \in DOMAIN lexer.literals_map :
                  \E i \in RulesOfLiteral(lexer, t) :
                      /\ \A j \in RulesOfLiteral(lexer, t) : j <= i
                      /\ lexer.literals_map[t] = lexer.rules[i].action
    /\ (lastCall # NoCall /\ lastCall[1].op = "add_rules"
           /\ \A i \in 1..Len(lastCall[1].arg) :
                  /\ WellFormed(lastCall[1].arg[i])
                  /\ AsRule(lastCall[1].arg[i]).matcher[1] # "Literal")
       => lexers[lastCall[1].lexer].literals_map
              = lastCall[1].before.literals_map
    /\ (lastCall # NoCall /\ lastCall[1].op = "token_base_name"
           /\ TypeOfValue(lastCall[1].arg) = "str"
           /\ Name(Lower(lastCall[1].arg[2]))
                  \in lexers[lastCall[1].lexer].tokens_set)
       => lastCall[1].result = Returns(Name(Lower(lastCall[1].arg[2])))

\* Two rules of the literal "plus" have been added, for Plus and then for
\* Id: the index maps "plus" to Id, and the string "plus" is resolved to
\* the token name Plus.
C18_Witness ==
    /\ lastCall # NoCall
    /\ lastCall[1].op = "token_base_name"
    /\ lastCall[1].arg = Value("str", "plus")
    /\ lastCall[1].result = Returns(Name("plus"))
    /\ Cardinality(RulesOfLiteral(lexers[lastCall[1].lexer], "plus")) = 2
    /\ lexers[lastCall[1].lexer].literals_map["plus"].name = Name("id")

====
